---- MODULE Spec2Model ----
(***************************************************************************)
(* Novel Sharing API (src/main.py, src/schemas.py): the handlers that      *)
(* build store queries, validate identifiers, number chapters, assemble a  *)
(* user's library and rank trending books, over a document store of four   *)
(* collections (book, chapter, libraryitem; comment carries no logic).     *)
(*                                                                         *)
(* Strings are sequences of one-character strings, so that length, case    *)
(* and hex decoding are computed and not assumed.  An optional value is a  *)
(* sequence of length 0 (None) or 1 (the value).                           *)
(***************************************************************************)
EXTENDS Integers, Sequences, FiniteSets, TLC

VARIABLES
    book,          \* collection "book": documents in insertion order
    chapter,       \* collection "chapter"
    libraryitem,   \* collection "libraryitem"
    resp,          \* the response of the latest handler call
    storeLimit,    \* the limit the latest call handed to the store (None if none)
    firstId,       \* history: the id the first add_to_library of each pair returned
    explicitBooks, \* history: book_ids that got a chapter with a supplied number
    pc, req, local, ret,  \* in-flight handler calls of the worker threads
    idStr, decoded, encoded  \* the identifier codec's input and results

vars == <<book, chapter, libraryitem, resp, storeLimit, firstId,
          explicitBooks, pc, req, local, ret, idStr, decoded, encoded>>

storeVars == <<book, chapter, libraryitem>>
procVars  == <<pc, req, local, ret>>
codecVars == <<idStr, decoded, encoded>>

-----------------------------------------------------------------------------
(* Bounds of the model *)

MaxBooks == 2        \* books created in a run
MaxItems == 3        \* libraryitem records created by sequential calls
MaxChapters == 3     \* chapter records created by sequential calls
MaxPrefix == 2       \* free leading characters of a codec input

-----------------------------------------------------------------------------
(* Values *)

None == <<>>
Some(x) == <<x>>
IsNone(o) == Len(o) = 0
Val(o) == o[1]

Min(a, b) == IF a < b THEN a ELSE b

Range(s) == {s[i] : i \in 1..Len(s)}

RECURSIVE SelectIdx(_, _, _)
\* the indices i of 1..n with P[i], ascending (P a function to BOOLEAN)
SelectIdx(P, i, n) ==
    IF i > n THEN <<>>
    ELSE (IF P[i] THEN <<i>> ELSE <<>>) \o SelectIdx(P, i + 1, n)

\* the documents of coll that the filter keeps, in collection order: a
\* find() cursor (keep is the set of documents satisfying the filter)
Find(coll, keep) ==
    LET P == [i \in 1..Len(coll) |-> coll[i] \in keep]
        idx == SelectIdx(P, 1, Len(coll))
    IN [k \in 1..Len(idx) |-> coll[idx[k]]]

\* cursor.limit(n) for n >= 1
Take(s, n) == SubSeq(s, 1, Min(n, Len(s)))

-----------------------------------------------------------------------------
(* Identifier codec: bson.ObjectId as used by to_obj_id, str() and is_valid *)

OidStrLen == 24
OidBytes == 12

HexChars == <<"0","1","2","3","4","5","6","7","8","9","a","b","c","d","e","f">>
UpperChars == <<"A","B","C","D","E","F">>
LowerChars == <<"a","b","c","d","e","f">>

ToLowerChar(c) ==
    IF \E i \in 1..Len(UpperChars) : UpperChars[i] = c
    THEN LowerChars[CHOOSE i \in 1..Len(UpperChars) : UpperChars[i] = c]
    ELSE c
ToUpperChar(c) ==
    IF \E i \in 1..Len(LowerChars) : LowerChars[i] = c
    THEN UpperChars[CHOOSE i \in 1..Len(LowerChars) : LowerChars[i] = c]
    ELSE c
ToLower(s) == [i \in 1..Len(s) |-> ToLowerChar(s[i])]
ToUpper(s) == [i \in 1..Len(s) |-> ToUpperChar(s[i])]

IsHexChar(c) == \E i \in 1..Len(HexChars) : HexChars[i] = ToLowerChar(c)
HexVal(c) == (CHOOSE i \in 1..Len(HexChars) : HexChars[i] = ToLowerChar(c)) - 1

\* ObjectId.is_valid(s) for a str: 24 characters, all hex digits of either case
IsValid(s) == Len(s) = OidStrLen /\ \A i \in 1..Len(s) : IsHexChar(s[i])

\* ObjectId(s) for a valid s: the 12 bytes the hex digits spell
ObjectId(s) == [i \in 1..OidBytes |-> 16 * HexVal(s[2 * i - 1]) + HexVal(s[2 * i])]

\* a str() that writes each byte's low digit first
StrNibblesSwapped(oid) ==
    [i \in 1..OidStrLen |->
        IF i % 2 = 0 THEN HexChars[(oid[i \div 2] \div 16) + 1]
        ELSE HexChars[(oid[(i + 1) \div 2] % 16) + 1]]
\* str(oid): the bytes as lowercase hex, high digit first
Str(oid) ==
    [i \in 1..OidStrLen |->
        IF i % 2 = 1 THEN HexChars[(oid[(i + 1) \div 2] \div 16) + 1]
        ELSE HexChars[(oid[i \div 2] % 16) + 1]]

\* to_obj_id: the ObjectId, or HTTP 400 "Invalid ID"
to_obj_id(s) ==
    IF IsValid(s) THEN [ok |-> TRUE, oid |-> ObjectId(s)]
    ELSE [ok |-> FALSE, status |-> 400]

\* ObjectId(): the n-th identifier generated for a collection; distinct for
\* distinct (collection, n), with hex letters in its string form
BookTag == 1
ChapterTag == 2
ItemTag == 3
NewObjectId(tag, n) ==
    [i \in 1..OidBytes |->
        IF i = OidBytes THEN 170 + n ELSE IF i = OidBytes - 1 THEN tag ELSE 0]

-----------------------------------------------------------------------------
(* Codec inputs: a free prefix padded with "0" to 23, 24 or 25 characters *)

CodecChars == {"0", "9", "a", "f", "A", "F", "g", "-"}
Pad(prefix, n) == prefix \o [i \in 1..(n - Len(prefix)) |-> "0"]
CodecInputs ==
    {<<>>} \cup
    {Pad(p, n) : p \in UNION {[1..k -> CodecChars] : k \in 1..MaxPrefix},
                 n \in {OidStrLen - 1, OidStrLen, OidStrLen + 1}}

NoResp == [op |-> "none", status |-> 0, body |-> <<>>]

InitStore ==
    /\ book = <<>> /\ chapter = <<>> /\ libraryitem = <<>>
    /\ resp = NoResp
    /\ storeLimit = None
    /\ firstId = {}
    /\ explicitBooks = {}
InitProcs ==
    /\ pc = [p \in {1, 2} |-> "idle"]
    /\ req = [p \in {1, 2} |-> None]
    /\ local = [p \in {1, 2} |-> None]
    /\ ret = [p \in {1, 2} |-> None]
InitCodecIdle == idStr = <<>> /\ decoded = None /\ encoded = None

\* get_book / get_chapter up to the lookup: decode the path identifier
Decode ==
    /\ IsNone(decoded)
    /\ decoded' = Some(to_obj_id(idStr))
    /\ UNCHANGED <<idStr, encoded>>
    /\ UNCHANGED <<storeVars, resp, storeLimit, firstId, explicitBooks, procVars>>

\* doc["_id"] = str(doc["_id"]): encode the identifier on the way out
Encode ==
    /\ ~IsNone(decoded) /\ Val(decoded).ok /\ IsNone(encoded)
    /\ encoded' = Some(Str(Val(decoded).oid))
    /\ UNCHANGED <<idStr, decoded>>
    /\ UNCHANGED <<storeVars, resp, storeLimit, firstId, explicitBooks, procVars>>

InitCodec ==
    /\ InitStore /\ InitProcs
    /\ idStr \in CodecInputs /\ decoded = None /\ encoded = None
NextCodec == Decode \/ Encode
CodecSpec == InitCodec /\ [][NextCodec]_vars

\* a 24-character string of hex digits of either case
HexDigitSet == {"0","1","2","3","4","5","6","7","8","9",
                "a","b","c","d","e","f","A","B","C","D","E","F"}
IsHex24(s) == Len(s) = 24 /\ \A i \in 1..Len(s) : s[i] \in HexDigitSet

\* decoding succeeds exactly on those strings, and fails with status 400 on
\* every other string
C7_DecodeOutcome ==
    ~IsNone(decoded) =>
        /\ Val(decoded).ok <=> IsHex24(idStr)
        /\ ~Val(decoded).ok => Val(decoded).status = 400

-----------------------------------------------------------------------------
(* The document store gateway (database.py, pymongo) *)

\* create_document(collection, data): insert with a fresh _id
CreateDocument(coll, tag, data) ==
    Append(coll, [_id |-> NewObjectId(tag, Len(coll) + 1)] @@ data)
\* ... and the string it returns
CreatedId(coll, tag) == Str(NewObjectId(tag, Len(coll) + 1))

\* collection.find_one(filter): the first match, or None
FindOne(coll, keep) ==
    LET m == Find(coll, keep) IN IF Len(m) = 0 THEN None ELSE Some(m[1])

\* doc["_id"] = str(doc["_id"])
Encoded(doc) == [doc EXCEPT !._id = Str(doc._id)]

-----------------------------------------------------------------------------
(* Books: create_book *)

Users == {"u1", "u2"}

\* the identifier strings clients send as book_id: the strings of the books
\* the store will hold, the first of them in upper case, a well-formed
\* identifier of no book, and a malformed one
DanglingId == Str(NewObjectId(BookTag, 0))
BookIdInputs ==
    {Str(NewObjectId(BookTag, k)) : k \in 1..MaxBooks}
    \cup {ToUpper(Str(NewObjectId(BookTag, 1))), DanglingId, <<"x", "y", "z">>}

PlainBook == [title |-> <<"a">>, tags |-> <<>>, categories |-> <<>>, genre |-> None]

CreateBook(bk) ==
    /\ Len(book) < MaxBooks
    /\ book' = CreateDocument(book, BookTag, bk)
    /\ resp' = [op |-> "create_book", status |-> 200,
                body |-> [id |-> CreatedId(book, BookTag)]]
    /\ storeLimit' = None
    /\ UNCHANGED <<chapter, libraryitem, firstId, explicitBooks, procVars, codecVars>>

-----------------------------------------------------------------------------
(* Library: add_to_library, get_library *)

\* a find_one filter that looks at the user alone
ItemFilterUserOnly(item, d) == d.user_id = item.user_id
\* {"user_id": item.user_id, "book_id": item.book_id}
ItemFilter(item, d) == d.user_id = item.user_id /\ d.book_id = item.book_id

HasFirst(item) ==
    \E f \in firstId : f.user_id = item.user_id /\ f.book_id = item.book_id

\* add_to_library run to completion: lookup, then return or insert
AddToLibrary(item) ==
    LET existing == FindOne(libraryitem, {d \in Range(libraryitem) : ItemFilter(item, d)})
        id == IF IsNone(existing) THEN CreatedId(libraryitem, ItemTag)
              ELSE Str(Val(existing)._id)
    IN /\ ~IsNone(existing) \/ Len(libraryitem) < MaxItems
       /\ libraryitem' = IF IsNone(existing)
                         THEN CreateDocument(libraryitem, ItemTag, item)
                         ELSE libraryitem
       /\ resp' = [op |-> "add_to_library", status |-> 200, args |-> item,
                   body |-> [id |-> id]]
       /\ firstId' = IF HasFirst(item) THEN firstId
                     ELSE firstId \cup {[user_id |-> item.user_id,
                                         book_id |-> item.book_id, id |-> id]}
       /\ storeLimit' = None
       /\ UNCHANGED <<book, chapter, explicitBooks, procVars, codecVars>>

\* book_map.get(bid): the document stored under the key str(b["_id"])
BookMapGet(books, bid) ==
    FindOne(books, {b \in Range(books) : Str(b._id) = bid})

\* get_library's result: the mapped book of each book_id, in item order
LibraryResult(user_id) ==
    LET items == Find(libraryitem, {d \in Range(libraryitem) : d.user_id = user_id})
        book_ids == [i \in 1..Len(items) |-> items[i].book_id]
        oids == {ObjectId(b) : b \in {x \in Range(book_ids) : IsValid(x)}}
        books == Find(book, {b \in Range(book) : b._id \in oids})
        hit == [i \in 1..Len(book_ids) |-> ~IsNone(BookMapGet(books, book_ids[i]))]
        idx == SelectIdx(hit, 1, Len(book_ids))
    IN [k \in 1..Len(idx) |-> Encoded(Val(BookMapGet(books, book_ids[idx[k]])))]

GetLibrary(user_id) ==
    /\ resp' = [op |-> "get_library", status |-> 200, args |-> user_id,
                body |-> LibraryResult(user_id)]
    /\ storeLimit' = None
    /\ UNCHANGED <<storeVars, firstId, explicitBooks, procVars, codecVars>>

Init == InitStore /\ InitProcs /\ InitCodecIdle

\* every book_id for the first user, and one saved book for the second
ItemInputs ==
    [user_id : {"u1"}, book_id : BookIdInputs]
    \cup {[user_id |-> "u2", book_id |-> Str(NewObjectId(BookTag, 1))]}

NextLibrary ==
    \/ CreateBook(PlainBook)
    \/ \E item \in ItemInputs : AddToLibrary(item)
    \/ \E u \in Users : GetLibrary(u)
LibrarySpec == Init /\ [][NextLibrary]_vars

SamePair(a, b) == a.user_id = b.user_id /\ a.book_id = b.book_id

\* C1: with add_to_library calls run one at a time, the collection holds at
\* most one record per (user_id, book_id) pair, it holds exactly one record
\* per pair ever added (a call for a stored pair inserts nothing), and every
\* call returns the identifier of the pair's stored record, which is the
\* identifier the first call for that pair returned.
C1_OneRecordPerPair ==
    /\ \A i, j \in 1..Len(libraryitem) :
          i # j => ~SamePair(libraryitem[i], libraryitem[j])
    /\ Len(libraryitem) = Cardinality(firstId)
    /\ resp.op = "add_to_library" =>
          /\ \E f \in firstId : SamePair(f, resp.args) /\ f.id = resp.body.id
          /\ \E i \in 1..Len(libraryitem) :
                /\ SamePair(libraryitem[i], resp.args)
                /\ Str(libraryitem[i]._id) = resp.body.id

\* C1 witness: a call for a pair already stored (its record is not the newest
\* one) has returned, with another pair's record stored after it
C1_Witness ==
    /\ resp.op = "add_to_library"
    /\ \E i \in 1..(Len(libraryitem) - 1) : SamePair(libraryitem[i], resp.args)

\* the books the claim of C3 expects: one per item of the user, in item
\* order, for the items whose book_id decodes to the _id of a stored book
C3_Resolves(item) ==
    /\ IsHex24(item.book_id)
    /\ \E i \in 1..Len(book) : book[i]._id = ObjectId(item.book_id)
C3_BookOf(item) ==
    LET i == CHOOSE i \in 1..Len(book) : book[i]._id = ObjectId(item.book_id)
    IN [book[i] EXCEPT !._id = Str(book[i]._id)]
C3_Expected(user_id) ==
    LET mine == [i \in 1..Len(libraryitem) |-> libraryitem[i].user_id = user_id
                                               /\ C3_Resolves(libraryitem[i])]
        idx == SelectIdx(mine, 1, Len(libraryitem))
    IN [k \in 1..Len(idx) |-> C3_BookOf(libraryitem[idx[k]])]

\* C3: get_library returns exactly the books the user's items reference, in
\* save order; an item contributes its book whenever its book_id decodes to
\* the identifier of a stored book, and nothing otherwise.
C3_LibraryInSaveOrder ==
    resp.op = "get_library" =>
        /\ resp.status = 200
        /\ resp.body = C3_Expected(resp.args)

-----------------------------------------------------------------------------
(* Library under concurrency: the two store calls of add_to_library are     *)
(* separate steps of a worker thread; nothing is held between them          *)

Procs == {1, 2}

RaceItems == {[user_id |-> u, book_id |-> Str(NewObjectId(BookTag, 1))] : u \in Users}

\* line 157: existing = find_one(...)
AddLookup(p, item) ==
    /\ pc[p] = "idle"
    /\ Len(libraryitem)
         + Cardinality({q \in Procs : pc[q] = "add_looked" /\ IsNone(local[q])})
         < MaxItems
    /\ pc' = [pc EXCEPT ![p] = "add_looked"]
    /\ req' = [req EXCEPT ![p] = Some(item)]
    /\ local' = [local EXCEPT ![p] = FindOne(libraryitem, {d \in Range(libraryitem) : ItemFilter(item, d)})]
    /\ UNCHANGED <<ret, storeVars, resp, storeLimit, firstId, explicitBooks, codecVars>>

\* an "if existing:" that asks the store again at the moment of deciding
ExistingRequeried(p) == FindOne(libraryitem, {d \in Range(libraryitem) : ItemFilter(Val(req[p]), d)})
\* line 158: "if existing:" reads the result of the earlier lookup
Existing(p) == local[p]

\* lines 158-161: return the existing id, or insert and return the new id
AddFinish(p) ==
    /\ pc[p] = "add_looked"
    /\ IF ~IsNone(Existing(p))
       THEN /\ ret' = [ret EXCEPT ![p] = Some(Str(Val(Existing(p))._id))]
            /\ UNCHANGED libraryitem
       ELSE /\ libraryitem' = CreateDocument(libraryitem, ItemTag, Val(req[p]))
            /\ ret' = [ret EXCEPT ![p] = Some(CreatedId(libraryitem, ItemTag))]
    /\ pc' = [pc EXCEPT ![p] = "done"]
    /\ UNCHANGED <<req, local, book, chapter, resp, storeLimit, firstId,
                   explicitBooks, codecVars>>

\* the response is sent; the worker takes the next request
Return(p) ==
    /\ pc[p] = "done"
    /\ pc' = [pc EXCEPT ![p] = "idle"]
    /\ req' = [req EXCEPT ![p] = None]
    /\ local' = [local EXCEPT ![p] = None]
    /\ ret' = [ret EXCEPT ![p] = None]
    /\ UNCHANGED <<storeVars, resp, storeLimit, firstId, explicitBooks, codecVars>>

NextLibraryRace ==
    \/ \E p \in Procs, item \in RaceItems : AddLookup(p, item)
    \/ \E p \in Procs : AddFinish(p)
    \/ \E p \in Procs : Return(p)
LibraryRaceSpec == Init /\ [][NextLibraryRace]_vars

\* both calls are complete, are for the same pair, and both lookups found
\* no record
C2_BothFoundNone(p, q) ==
    /\ p # q /\ pc[p] = "done" /\ pc[q] = "done"
    /\ SamePair(Val(req[p]), Val(req[q]))
    /\ IsNone(local[p]) /\ IsNone(local[q])

\* C2: when two add_to_library calls for the same pair both looked up before
\* either inserted (both found no record), both insert: the collection holds
\* two records for the pair and the calls return different identifiers.
C2_RaceDuplicates ==
    \A p, q \in Procs :
        C2_BothFoundNone(p, q) =>
            /\ ret[p] # ret[q]
            /\ \E i, j \in 1..Len(libraryitem) :
                  /\ i # j
                  /\ SamePair(libraryitem[i], Val(req[p]))
                  /\ SamePair(libraryitem[j], Val(req[p]))
                  /\ Some(Str(libraryitem[i]._id)) = ret[p]
                  /\ Some(Str(libraryitem[j]._id)) = ret[q]

\* C2 witness: the execution exists; two records of one pair are stored
C2_Witness ==
    /\ \E p, q \in Procs : C2_BothFoundNone(p, q)
    /\ \E i, j \in 1..Len(libraryitem) :
          i # j /\ SamePair(libraryitem[i], libraryitem[j])

-----------------------------------------------------------------------------
(* Chapters: create_chapter *)

\* the book_id strings of chapter requests: the first two books' identifiers
ChapterBookIds == {Str(NewObjectId(BookTag, k)) : k \in 1..2}
ChapterNumbers == {None, Some(1), Some(3)}
ChapterInputs == [book_id : ChapterBookIds, chapter_number : ChapterNumbers]

\* a count filter that matches every chapter
ChapterFilterAll(ch, d) == TRUE
\* {"book_id": chapter.book_id}
ChapterFilter(ch, d) == d.book_id = ch.book_id

\* count_documents(filter)
CountDocuments(coll, keep) == Len(Find(coll, keep))

\* a numbering that starts at 0
NextNumberFromZero(count) == count
\* line 117: chapter.chapter_number = count + 1
NextNumber(count) == count + 1

\* create_chapter run to completion
CreateChapter(ch) ==
    LET number == IF IsNone(ch.chapter_number)
                  THEN NextNumber(CountDocuments(chapter, {d \in Range(chapter) : ChapterFilter(ch, d)}))
                  ELSE Val(ch.chapter_number)
    IN /\ Len(chapter) < MaxChapters
       /\ chapter' = CreateDocument(chapter, ChapterTag,
                         [book_id |-> ch.book_id, chapter_number |-> number])
       /\ resp' = [op |-> "create_chapter", status |-> 200, args |-> ch,
                   body |-> [id |-> CreatedId(chapter, ChapterTag)]]
       /\ explicitBooks' = IF IsNone(ch.chapter_number) THEN explicitBooks
                           ELSE explicitBooks \cup {ch.book_id}
       /\ storeLimit' = None
       /\ UNCHANGED <<book, libraryitem, firstId, procVars, codecVars>>

-----------------------------------------------------------------------------
(* Trending: discover_trending *)

\* typed BSON values: equality holds only between values of one type
OidValue(oid) == [type |-> "objectId", val |-> oid]
StringValue(str) == [type |-> "string", val |-> str]
BsonEq(a, b) == a.type = b.type /\ a.val = b.val

\* $lookup from chapter, localField _id, foreignField book_id, as chapters
Lookup(b) == Find(chapter, {c \in Range(chapter) : BsonEq(OidValue(b._id), StringValue(c.book_id))})

\* $addFields chapters_count: $size of the chapters that are not null
WithCount(b) ==
    LET chapters == Lookup(b)
    IN [chapters |-> chapters, chapters_count |-> Len(chapters)] @@ b

\* $sort {chapters_count: -1, updated_at: -1}: the orders of the books the
\* sort may produce; no handler writes updated_at, so books of equal count
\* come in an order the store chooses
SortedOrders ==
    {o \in Permutations(1..Len(book)) :
        \A i, j \in 1..Len(book) :
            i < j => WithCount(book[o[i]]).chapters_count
                        >= WithCount(book[o[j]]).chapters_count}

\* the pipeline's output for one order, limited, with _id encoded
TrendingData(o, limit) ==
    Take([k \in 1..Len(book) |-> Encoded(WithCount(book[o[k]]))], limit)

\* the store rejects a $limit that is not positive: the call ends in HTTP 500
DiscoverTrending(limit) ==
    /\ storeLimit' = Some(limit)
    /\ IF limit >= 1
       THEN \E o \in SortedOrders :
               resp' = [op |-> "discover_trending", status |-> 200, args |-> limit,
                        body |-> TrendingData(o, limit)]
       ELSE resp' = [op |-> "discover_trending", status |-> 500, args |-> limit,
                     body |-> <<>>]
    /\ UNCHANGED <<storeVars, firstId, explicitBooks, procVars, codecVars>>

TrendingLimits == {1, 2, 12}

NextChapter ==
    \/ CreateBook(PlainBook)
    \/ \E ch \in ChapterInputs : CreateChapter(ch)
    \/ \E limit \in TrendingLimits : DiscoverTrending(limit)
ChapterSpec == Init /\ [][NextChapter]_vars

\* the number of chapter records that reference the book whose identifier
\* string is id
C4_Referencing(id) == Cardinality({i \in 1..Len(chapter) : chapter[i].book_id = id})

\* C4: discover_trending(limit) returns min(limit, number of books) books,
\* each with the number of chapter records that reference it, ordered by
\* that number descending, and no book left out has more chapters than a
\* book returned.
C4_TrendingByChapterCount ==
    (resp.op = "discover_trending" /\ resp.status = 200) =>
        LET data == resp.body
            ids == {data[k]._id : k \in 1..Len(data)}
        IN /\ Len(data) = Min(resp.args, Len(book))
           /\ \A k \in 1..Len(data) :
                 data[k].chapters_count = C4_Referencing(data[k]._id)
           /\ \A k, m \in 1..Len(data) :
                 k < m => C4_Referencing(data[k]._id) >= C4_Referencing(data[m]._id)
           /\ \A i \in 1..Len(book), k \in 1..Len(data) :
                 Str(book[i]._id) \notin ids =>
                    C4_Referencing(Str(book[i]._id)) <= C4_Referencing(data[k]._id)

\* C5: create_chapter stores the request's book_id; without a chapter_number
\* it stores 1 + the number of chapters the book had, and with one it stores
\* the number given, whatever the existing chapters are.
C5_StoredNumber ==
    resp.op = "create_chapter" =>
        LET n == Len(chapter)
            prior == Cardinality({i \in 1..(n - 1) :
                                    chapter[i].book_id = resp.args.book_id})
        IN /\ n >= 1
           /\ Str(chapter[n]._id) = resp.body.id
           /\ chapter[n].book_id = resp.args.book_id
           /\ chapter[n].chapter_number =
                 IF IsNone(resp.args.chapter_number) THEN prior + 1
                 ELSE Val(resp.args.chapter_number)

\* C5 witness: a chapter created without a number for a book that had
\* chapters 1 and 2 got number 3
C5_Witness ==
    /\ resp.op = "create_chapter" /\ IsNone(resp.args.chapter_number)
    /\ Len(chapter) = 3
    /\ chapter[3].chapter_number = 3
    /\ \E i, j \in 1..2 :
          /\ chapter[i].book_id = resp.args.book_id /\ chapter[i].chapter_number = 1
          /\ chapter[j].book_id = resp.args.book_id /\ chapter[j].chapter_number = 2

\* C10: a book all of whose chapters were created without a chapter_number,
\* one call at a time, has chapters numbered 1..n in creation order.
C10_Contiguous ==
    \A b \in ChapterBookIds \ explicitBooks :
        LET cs == Find(chapter, {d \in Range(chapter) : d.book_id = b})
        IN \A k \in 1..Len(cs) : cs[k].chapter_number = k

\* C10 witness: an auto-numbered book has two chapters, stored around a
\* chapter of another book
C10_Witness ==
    \E b \in ChapterBookIds \ explicitBooks :
        /\ Len(chapter) = 3
        /\ chapter[1].book_id = b /\ chapter[2].book_id # b /\ chapter[3].book_id = b

-----------------------------------------------------------------------------
(* Chapters under concurrency: count_documents and the insert are separate  *)
(* store calls of create_chapter                                            *)

RaceChapters ==
    [book_id : {Str(NewObjectId(BookTag, 1))}, chapter_number : {None, Some(1)}]

\* lines 115-116: the count, made only when no number was supplied
ChapterCount(p, ch) ==
    /\ pc[p] = "idle"
    /\ Len(chapter) + Cardinality({q \in Procs : pc[q] = "chapter_counted"})
         < MaxChapters
    /\ pc' = [pc EXCEPT ![p] = "chapter_counted"]
    /\ req' = [req EXCEPT ![p] = Some(ch)]
    /\ local' = [local EXCEPT ![p] =
                    IF IsNone(ch.chapter_number)
                    THEN Some(CountDocuments(chapter, {d \in Range(chapter) : ChapterFilter(ch, d)}))
                    ELSE None]
    /\ UNCHANGED <<ret, storeVars, resp, storeLimit, firstId, explicitBooks, codecVars>>

\* a number taken from a count made again at the moment of the insert
AssignedNumberRecounted(p) ==
    NextNumber(CountDocuments(chapter, {d \in Range(chapter) : ChapterFilter(Val(req[p]), d)}))
\* line 117: the number comes from the count made earlier
AssignedNumber(p) == NextNumber(Val(local[p]))

\* lines 117-119: assign the number, insert, return the id
ChapterInsert(p) ==
    LET ch == Val(req[p])
        number == IF IsNone(ch.chapter_number) THEN AssignedNumber(p)
                  ELSE Val(ch.chapter_number)
    IN /\ pc[p] = "chapter_counted"
       /\ chapter' = CreateDocument(chapter, ChapterTag,
                         [book_id |-> ch.book_id, chapter_number |-> number])
       /\ ret' = [ret EXCEPT ![p] = Some(CreatedId(chapter, ChapterTag))]
       /\ pc' = [pc EXCEPT ![p] = "done"]
       /\ UNCHANGED <<req, local, book, libraryitem, resp, storeLimit, firstId,
                      explicitBooks, codecVars>>

NextChapterRace ==
    \/ \E p \in Procs, ch \in RaceChapters : ChapterCount(p, ch)
    \/ \E p \in Procs : ChapterInsert(p)
    \/ \E p \in Procs : Return(p)
ChapterRaceSpec == Init /\ [][NextChapterRace]_vars

\* both calls are complete, are for the same book without a number, and
\* read the same count
C6_BothCountedSame(p, q) ==
    /\ p # q /\ pc[p] = "done" /\ pc[q] = "done"
    /\ Val(req[p]).book_id = Val(req[q]).book_id
    /\ IsNone(Val(req[p]).chapter_number) /\ IsNone(Val(req[q]).chapter_number)
    /\ local[p] = local[q]

\* C6: when two create_chapter calls for one book, both without a number,
\* both count before either inserts, the two records they insert carry the
\* same chapter_number.
C6_RaceSameNumber ==
    \A p, q \in Procs :
        C6_BothCountedSame(p, q) =>
            \E i, j \in 1..Len(chapter) :
                /\ i # j
                /\ Some(Str(chapter[i]._id)) = ret[p]
                /\ Some(Str(chapter[j]._id)) = ret[q]
                /\ chapter[i].book_id = chapter[j].book_id
                /\ chapter[i].chapter_number = chapter[j].chapter_number

\* C6 witness: the execution exists; two chapters of one book, both
\* numbered by the handler, share a number
C6_Witness ==
    /\ \E p, q \in Procs : C6_BothCountedSame(p, q)
    /\ \E i, j \in 1..Len(chapter) :
          /\ i # j /\ chapter[i].book_id = chapter[j].book_id
          /\ chapter[i].chapter_number = chapter[j].chapter_number

-----------------------------------------------------------------------------
(* Queries: list_books, discover_by_tag, discover_by_category *)

LimitMin == 1
LimitMax == 100

\* get_documents(collection, filter, limit): find(filter) with the cursor
\* limit applied; a limit of 0 is no limit, a negative one counts as positive
GetDocuments(coll, keep, limit) ==
    LET all == Find(coll, keep)
    IN IF limit = 0 THEN all ELSE Take(all, IF limit < 0 THEN -limit ELSE limit)

\* {"$regex": pat, "$options": "i"} on a string, for patterns of literal
\* characters and ".", which stands for any one character: a match may
\* start at any position
RegexSearch(pat, text) ==
    \E i \in 0..(Len(text) - Len(pat)) :
        \A j \in 1..Len(pat) :
            pat[j] = "." \/ ToLowerChar(pat[j]) = ToLowerChar(text[i + j])

\* Python truth of an Optional[str]: neither None nor ""
Truthy(o) == ~IsNone(o) /\ Val(o) # <<>>

\* {field: value} on an array field: some element equals the value
ArrayHas(arr, v) == \E i \in 1..Len(arr) : arr[i] = v

\* lines 86-94: filter_dict, as the test it puts on a document
BookFilter(q, tag, category, genre, d) ==
    /\ Truthy(q) => RegexSearch(Val(q), d.title)
    /\ Truthy(tag) => ArrayHas(d.tags, Val(tag))
    /\ Truthy(category) => ArrayHas(d.categories, Val(category))
    /\ Truthy(genre) => d.genre = genre

EncodedAll(docs) == [k \in 1..Len(docs) |-> Encoded(docs[k])]

\* list_books; Query(50, ge=1, le=100) rejects other limits with HTTP 422
ListBooks(q, tag, category, genre, limit) ==
    LET args == [q |-> q, tag |-> tag, category |-> category, genre |-> genre,
                 limit |-> limit]
    IN IF limit >= LimitMin /\ limit <= LimitMax
       THEN /\ storeLimit' = Some(limit)
            /\ resp' = [op |-> "list_books", status |-> 200, args |-> args,
                        body |-> EncodedAll(GetDocuments(book,
                            {d \in Range(book) : BookFilter(q, tag, category, genre, d)}, limit))]
            /\ UNCHANGED <<storeVars, firstId, explicitBooks, procVars, codecVars>>
       ELSE /\ storeLimit' = None
            /\ resp' = [op |-> "list_books", status |-> 422, args |-> args,
                        body |-> <<>>]
            /\ UNCHANGED <<storeVars, firstId, explicitBooks, procVars, codecVars>>

\* discover_by_tag: limit is a plain int parameter
DiscoverByTag(tag, limit) ==
    /\ storeLimit' = Some(limit)
    /\ resp' = [op |-> "discover_by_tag", status |-> 200,
                args |-> [tag |-> tag, limit |-> limit],
                body |-> EncodedAll(GetDocuments(book,
                            {d \in Range(book) : ArrayHas(d.tags, tag)}, limit))]
    /\ UNCHANGED <<storeVars, firstId, explicitBooks, procVars, codecVars>>

\* discover_by_category: limit is a plain int parameter
DiscoverByCategory(category, limit) ==
    /\ storeLimit' = Some(limit)
    /\ resp' = [op |-> "discover_by_category", status |-> 200,
                args |-> [category |-> category, limit |-> limit],
                body |-> EncodedAll(GetDocuments(book,
                            {d \in Range(book) : ArrayHas(d.categories, category)}, limit))]
    /\ UNCHANGED <<storeVars, firstId, explicitBooks, procVars, codecVars>>

\* fixture books: tag "fx" contains "f" without being it; "F" differs in case
QueryBooks ==
    { [title |-> <<"a", "b", "c">>, tags |-> << <<"f">> >>,
       categories |-> << <<"c">> >>, genre |-> Some(<<"e">>)],
      [title |-> <<"B">>, tags |-> << <<"f", "x">>, <<"F">> >>,
       categories |-> <<>>, genre |-> None],
      [title |-> <<"a", "c">>, tags |-> <<>>,
       categories |-> << <<"c">>, <<"d">> >>, genre |-> Some(<<"E">>)] }

QueryTexts == {None, Some(<<>>), Some(<<"b">>), Some(<<"B", "C">>), Some(<<".">>),
               Some(<<"a", ".", "c">>)}
QueryTags == {None, Some(<<>>), Some(<<"f">>)}
QueryCategories == {None, Some(<<"c">>)}
QueryGenres == {None, Some(<<"e">>)}
QueryLimits == {0, 1, 2, LimitMax + 1}

NextQuery ==
    \/ \E bk \in QueryBooks : CreateBook(bk)
    \/ \E q \in QueryTexts, tag \in QueryTags, category \in QueryCategories,
          genre \in QueryGenres, limit \in QueryLimits :
          ListBooks(q, tag, category, genre, limit)
    \/ \E limit \in QueryLimits : DiscoverTrending(limit)
    \/ \E tag \in {<<"f">>, <<"F">>}, limit \in QueryLimits : DiscoverByTag(tag, limit)
    \/ \E category \in {<<"c">>}, limit \in QueryLimits :
          DiscoverByCategory(category, limit)
QuerySpec == Init /\ [][NextQuery]_vars

\* C8: a limit reaches the store query or aggregation only within [1, 100].
C8_StoreLimitInRange ==
    ~IsNone(storeLimit) => (Val(storeLimit) >= 1 /\ Val(storeLimit) <= 100)

\* text contains sub as a run of consecutive characters, letter case ignored
C9_ContainsIgnoreCase(text, sub) ==
    \E i \in 0..(Len(text) - Len(sub)) :
        \A j \in 1..Len(sub) : ToLowerChar(sub[j]) = ToLowerChar(text[i + j])

\* the filter of C9 on a document; a parameter counts as present when it is
\* supplied and not empty
C9_Matches(a, d) ==
    /\ Truthy(a.q) => C9_ContainsIgnoreCase(d.title, Val(a.q))
    /\ Truthy(a.tag) => Val(a.tag) \in Range(d.tags)
    /\ Truthy(a.category) => Val(a.category) \in Range(d.categories)
    /\ Truthy(a.genre) => d.genre = a.genre

\* C9: list_books returns the first `limit` books that satisfy one
\* constraint per present parameter, all together: title contains q (case
\* ignored), tags has tag as an element, categories has category as an
\* element, genre equals genre; with no parameter, every book.
C9_FilterIsConjunction ==
    (resp.op = "list_books" /\ resp.status = 200) =>
        LET want == Find(book, {d \in Range(book) : C9_Matches(resp.args, d)})
        IN resp.body = EncodedAll(Take(want, resp.args.limit))

====
